---- MODULE Spec2Model ----
(***************************************************************************)
(* The ai-gateway chat handlers as a state machine.                        *)
(*                                                                         *)
(* The repository holds several builds of the same server.  `variant`     *)
(* says which build is deployed:                                          *)
(*   "mcp"       src/unnamed/part_001  Groq chat completions, MCP client  *)
(*               singleton, cached tool catalog, stored histories         *)
(*   "cohere"    src/unnamed/part_002  Cohere chat completions, JSON-RPC  *)
(*               helpers, MAX_STEPS tool loop                             *)
(*   "responses" src/unnamed/part_000  Groq Responses API, hosted tools   *)
(*                                                                         *)
(* Every action is the code of a handler between two awaits: it takes the *)
(* outcome of the call that was awaited, runs the synchronous code that   *)
(* follows and stops at the next await or at the response.                *)
(***************************************************************************)
EXTENDS Integers, Sequences, FiniteSets, TLC

VARIABLES
    variant,          \* which build is running
    conversations,    \* conversationStore / conversations: cid -> array (0 = absent)
    heap,             \* the message arrays, by identity
    mcpClient,        \* part_001:28   TRUE when the singleton is set
    cachedGroqTools,  \* part_001:34   NULL or the cached catalog
    boot,             \* part_001:225-232  position of the start-up preload
    nreq,             \* number of requests received so far
    faults,           \* failures the environment has produced so far
    req,              \* per request slot: the handler's locals and position
    openaiPrevResponseId  \* server.ts:97  cid -> last response id (0 = absent)

vars == <<variant, conversations, heap, mcpClient, cachedGroqTools, boot, nreq,
          faults, req, openaiPrevResponseId>>

----------------------------------------------------------------------------
(* Bounds of the model *)

MaxRequests == 3      \* requests received in one behaviour
MaxCalls    == 2      \* tool calls carried by one model response
MaxFaults   == 1      \* failures in one behaviour: a failed completion, connection,
                      \* discovery or tool invocation, a malformed argument payload
MaxBlocks   == 2      \* content blocks of one tool result

(* Program constants *)

MAX_STEPS == 8

Variants   == {"mcp", "cohere", "responses", "openai"}
Reqs       == {1, 2}
Serial     == {1}
Cids       == {"a", "b"}
Keys       == Cids \cup {"default"}     \* part_002:179  conversationId ?? "default"
NONE       == "NONE"
UNDEF      == "undefined"
NULL       == {"NULL"}          \* the null catalog (a catalog is a set of tool names)
THROW      == {"throw"}         \* a discovery call that throws
SysPrompts == {NONE, "p", ""}    \* absent, a persona, a blank text
UserTexts  == {"hi"}
Texts      == {"", "txt"}

allowedTools == {"get_user_info"}
ToolNames    == {"get_user_info", "debug_tool"}
HostToolSets == {{}, {"get_user_info", "debug_tool"}}

DEFAULT_SYSTEM_PROMPT == "DEFAULT"
defaultSystem         == "STRICT"

----------------------------------------------------------------------------
(* Messages *)

SysMsg(text)        == [role |-> "system",    content |-> text, tool_calls |-> <<>>, tool_call_id |-> 0]
UserMsg(text)       == [role |-> "user",      content |-> text, tool_calls |-> <<>>, tool_call_id |-> 0]
AsstMsg(text, ids)  == [role |-> "assistant", content |-> text, tool_calls |-> ids,  tool_call_id |-> 0]
ToolMsg(id, text)   == [role |-> "tool",      content |-> text, tool_calls |-> <<>>, tool_call_id |-> id]

(* The tool message contents the catch of part_001 builds.                *)
ExecErrorText   == "error: Tool execution failed"
ParseErrorText  == "error: Tool execution failed: Unexpected token"

----------------------------------------------------------------------------
(* A request slot: the locals of one run of app.post("/chat/openai").     *)

NoCall == [id |-> 0, name |-> NONE, args |-> NONE]

Idle == [pc |-> "idle", run |-> 0, cid |-> NONE, messages |-> 0, local |-> <<>>,
         tools |-> {}, tool_choice |-> NONE, toolsPassed |-> FALSE,
         step |-> 0, pending |-> <<>>, cur |-> NoCall, finalText |-> "",
         status |-> 0, text |-> "", err |-> NONE, calls |-> 0, discovery |-> NONE,
         result |-> NONE, toolText |-> NONE, message |-> NONE,
         base |-> 0, prevId |-> 0, responseId |-> 0]

Ended    == {"idle", "done", "error"}
Running(r) == req[r].pc \notin Ended
ArrayIds == 1..MaxRequests

Init ==
    /\ variant \in Variants
    /\ conversations = [c \in Keys |-> 0]
    /\ heap = [i \in ArrayIds |-> <<>>]
    /\ mcpClient = FALSE
    /\ cachedGroqTools = NULL
    /\ boot = IF variant = "mcp" THEN "connect" ELSE "done"
    /\ nreq = 0
    /\ faults = 0
    /\ req = [r \in Reqs |-> Idle]
    /\ openaiPrevResponseId = [c \in Keys |-> 0]

(* Arrays nothing refers to any more are dropped (garbage collection).    *)
Collect(h, st, rq) ==
    [i \in ArrayIds |->
        IF \/ \E c \in Keys : st[c] = i
           \/ \E r \in Reqs : rq[r].pc \notin Ended /\ rq[r].messages = i
        THEN h[i] ELSE <<>>]

Commit(r, rec, h, st) ==
    LET rq == [req EXCEPT ![r] = rec] IN
    /\ req' = rq
    /\ conversations' = st
    /\ heap' = Collect(h, st, rq)

(* The length of the history stored under c, 0 when c has no session.      *)
Stored(c) == IF conversations[c] = 0 THEN 0 ELSE Len(heap[conversations[c]])

(* Array.prototype.push; PushReplace is what an assignment would do.        *)
PushReplace(h, a, m) == [h EXCEPT ![a] = <<m>>]
Push(h, a, m) == [h EXCEPT ![a] = Append(@, m)]

(* res.status(500).json({ error: err.message }) in the handler's catch.    *)
Fail500(rec, why) == [rec EXCEPT !.pc = "error", !.status = 500, !.err = why,
                                 !.pending = <<>>, !.cur = NoCall]

(* res.json({ conversationId, text }).                                      *)
Reply200(rec, t) == [rec EXCEPT !.pc = "done", !.status = 200, !.text = t,
                                !.pending = <<>>, !.cur = NoCall]

(* Conversation identifiers are interchangeable: the first slot uses the   *)
(* first one, a second slot the same or another one.                       *)
CidChoices(r) == IF r = 1 THEN {"a"} ELSE Cids

(* The systemPrompt of a request: any in the first request, a persona in   *)
(* the later ones.                                                         *)
PromptChoices == IF nreq = 0 THEN SysPrompts ELSE {"p"}

(* The body of a request (part_001:97).  A body without conversationId or  *)
(* without message uses up one of MaxFaults for each missing field, and is *)
(* explored as the first request, without systemPrompt.                    *)
Invalid(body) ==
    (IF body.conversationId = NONE THEN 1 ELSE 0) + (IF body.message = UNDEF THEN 1 ELSE 0)

BodyChoices(r) ==
    {body \in [conversationId : CidChoices(r) \cup {NONE},
               systemPrompt   : PromptChoices,
               message        : UserTexts \cup {UNDEF}] :
        /\ faults + Invalid(body) <= MaxFaults
        /\ Invalid(body) > 0 => (nreq = 0 /\ body.systemPrompt = NONE)}

----------------------------------------------------------------------------
(* The environment: completion service and tool host.                      *)

(* Outcomes of a call that can fail: "throw" uses up one of MaxFaults.     *)
Outcomes(ok) == {ok} \cup (IF faults < MaxFaults THEN {"throw"} ELSE {})
Cost(out)    == IF out = "throw" THEN 1 ELSE 0

(* tools/list: the host's tools, or a failure.                             *)
ListOutcomes == HostToolSets \cup (IF faults < MaxFaults THEN {THROW} ELSE {})

(* A completion call is recorded in the slot with the tool_choice and      *)
(* tools it was given; its reply arrives in a later step.                  *)
IssueModel(rec, where, choice, passed) ==
    [rec EXCEPT !.pc = where, !.tool_choice = choice, !.toolsPassed = passed,
                !.calls = @ + 1, !.cur = NoCall]

(* Identifiers the completion service assigns to the tool calls of a reply. *)
CallId(rec, j) == ((rec.run - 1) * MAX_STEPS + rec.step) * MaxCalls + j
CallIds(rec, n) == [j \in 1..n |-> CallId(rec, j)]

(* The replies the service can give to the call a slot is waiting for: an   *)
(* error, or one assistant message.  The message carries tool calls only   *)
(* when tools were offered with tool_choice "auto".  The usual replies are *)
(* a text, or one tool call without text; the others (several tool calls,  *)
(* text next to tool calls, neither text nor tool calls) are explored as   *)
(* the first reply to the first request.                                   *)
CanCall(rec) == rec.toolsPassed /\ rec.tools # {} /\ rec.tool_choice = "auto"

IsUnusual(content, n) == n > 1 \/ (n > 0 /\ content # "") \/ (n = 0 /\ content = "")
FirstReply(rec) == rec.run = 1 /\ rec.step = 0

Replies(rec) ==
    {[kind |-> k, content |-> "", ids |-> <<>>] : k \in Outcomes("msg") \ {"msg"}}
    \cup {[kind |-> "msg", content |-> t, ids |-> <<>>] :
             t \in {y \in Texts : IsUnusual(y, 0) => FirstReply(rec)}}
    \cup {[kind |-> "msg", content |-> x[1], ids |-> CallIds(rec, x[2])] :
             x \in {y \in Texts \X (1..MaxCalls) :
                       /\ CanCall(rec)
                       /\ (IsUnusual(y[1], y[2]) => FirstReply(rec))}}

(* The tool name of a call: any name in the first tool block of the first  *)
(* request, a known one later.                                             *)
NameChoices(rec) == IF rec.run = 1 /\ rec.step = 0 THEN ToolNames ELSE allowedTools

(* How many of the calls at the head of `ids` carry a malformed argument   *)
(* payload: each uses up one of MaxFaults.                                 *)
Malformed(ids, used) == {k \in 0..Len(ids) : faults + used + k <= MaxFaults}

----------------------------------------------------------------------------
(* Tool results and the extractors                                         *)


(* A raw tool result: structuredContent is absent, null or an object "S";  *)
(* content is absent (isArray = FALSE) or an array of blocks.  A text      *)
(* block's text is a string or absent.                                     *)
Structured == {UNDEF, "null", "S"}
BlockTexts == {"a", "b", "", UNDEF}
Blocks     == {[type |-> "text", text |-> t] : t \in BlockTexts}
                  \cup {[type |-> "image", text |-> UNDEF]}
Contents   == UNION {[1..n -> Blocks] : n \in 0..MaxBlocks}
RawResults ==
    {x \in [structuredContent : Structured, isArray : BOOLEAN, content : Contents] :
        ~x.isArray => x.content = <<>>}

(* JSON.stringify(x, null, 2) of the value named x.                        *)
Stringify(x) == "json(" \o x \o ")"

(* Array.prototype.join("\n") *)
RECURSIVE Join(_)
Join(texts) ==
    IF Len(texts) = 1 THEN texts[1] ELSE texts[1] \o "\n" \o Join(Tail(texts))

(* part_001:86-91 *)
extractTextFromMcpResult(result) ==
    IF result.structuredContent \notin {UNDEF, "null"}
    THEN Stringify(result.structuredContent)
    ELSE LET found == {i \in DOMAIN result.content : result.content[i].type = "text"}
             firstText == IF found = {} THEN UNDEF
                          ELSE result.content[CHOOSE i \in found : \A j \in found : i <= j].text
         IN  IF firstText # UNDEF THEN firstText ELSE Stringify("result")

(* part_002:143-157 *)
extractMcpText(result) ==
    LET mapped == [i \in DOMAIN result.content |->
                      IF result.content[i].type = "text" /\ result.content[i].text # UNDEF
                      THEN result.content[i].text ELSE ""]
        IsText(t) == t # ""
        texts == SelectSeq(mapped, IsText)
    IN  IF result.isArray /\ Len(texts) > 0 THEN Join(texts)
        ELSE IF result.structuredContent # UNDEF THEN Stringify(result.structuredContent)
        ELSE Stringify("result")

(* The result the tool host gives in a run of the handlers: one text       *)
(* block.  The other shapes are explored by ExtractSpec.                   *)
UsualResult == [structuredContent |-> UNDEF, isArray |-> TRUE,
                content |-> <<[type |-> "text", text |-> "a"]>>]
ToolResults == {UsualResult}

----------------------------------------------------------------------------
(* part_001: Groq chat completions with the MCP client singleton           *)

(* part_001:124-136: availableTools is what getGroqTools returned, `how`    *)
(* the way it got it: "cached" (60), "ok" (76) or "failed" (79).            *)
McpFirstCall(rec, availableTools, how) ==
    LET hasTools == availableTools # {} IN
    IssueModel([rec EXCEPT !.tools = availableTools, !.discovery = how], "model1",
               IF hasTools THEN "auto" ELSE "none", hasTools)

(* getGroqTools up to its first await (part_001:57-64): the cached catalog *)
(* is returned at once; otherwise getMcpClient returns the singleton or    *)
(* starts a connection.                                                    *)
getGroqTools(rec) ==
    IF cachedGroqTools # NULL THEN McpFirstCall(rec, cachedGroqTools, "cached")
    ELSE IF mcpClient THEN [rec EXCEPT !.pc = "listTools"]
    ELSE [rec EXCEPT !.pc = "connect"]

(* part_001:95-124 *)
McpStart(r) ==
    /\ variant = "mcp"
    /\ req[r].pc \in Ended
    /\ nreq < MaxRequests
    /\ \E body \in BodyChoices(r) :
        LET conversationId == body.conversationId
            systemPrompt   == body.systemPrompt
            message        == body.message
            n   == nreq + 1
            old == IF conversationId = NONE THEN 0 ELSE conversations[conversationId]
            a   == IF old = 0 THEN n ELSE old
            sys == IF systemPrompt \notin {NONE, ""}
                   THEN defaultSystem \o "\n" \o systemPrompt
                   ELSE defaultSystem
            h1  == IF old = 0 THEN [heap EXCEPT ![a] = <<SysMsg(sys)>>] ELSE heap
            h2  == Push(h1, a, UserMsg(message))
            rec == [Idle EXCEPT !.run = n, !.cid = conversationId, !.messages = a,
                                !.message = message,
                                !.base = IF old = 0 THEN 0 ELSE Stored(conversationId)]
        IN  /\ nreq' = n
            /\ faults' = faults + Invalid(body)
            /\ IF conversationId = NONE
               THEN Commit(r, [rec EXCEPT !.pc = "error", !.status = 400,
                                          !.err = "conversationId is required",
                                          !.messages = 0],
                           heap, conversations)
               ELSE Commit(r, getGroqTools(rec), h2, conversations)
    /\ UNCHANGED <<variant, openaiPrevResponseId,
                   mcpClient, cachedGroqTools, boot>>

(* part_001:149-191: the tool loop from the call at the head of `ids` to    *)
(* its next await.  The first k calls carry a malformed payload: JSON.parse *)
(* throws and the catch appends the error message.                          *)
(* McpLoopSilent is the loop with a catch that appends nothing.             *)
RECURSIVE McpLoopSilent(_, _, _, _, _)
McpLoopSilent(rec, h, ids, k, name) ==
    IF ids = <<>>
    THEN <<IssueModel([rec EXCEPT !.pending = <<>>], "model2", "omitted", FALSE), h>>
    ELSE IF k > 0
    THEN McpLoopSilent(rec, h, Tail(ids), k - 1, name)
    ELSE <<[rec EXCEPT !.pc = "callTool", !.pending = Tail(ids),
                       !.cur = [id |-> Head(ids), name |-> name, args |-> "parsed"]], h>>

RECURSIVE McpLoop(_, _, _, _, _)
McpLoop(rec, h, ids, k, name) ==
    IF ids = <<>>
    THEN <<IssueModel([rec EXCEPT !.pending = <<>>], "model2", "omitted", FALSE), h>>
    ELSE IF k > 0
    THEN McpLoop(rec, Push(h, rec.messages, ToolMsg(Head(ids), ParseErrorText)),
                 Tail(ids), k - 1, name)
    ELSE <<[rec EXCEPT !.pc = "callTool", !.pending = Tail(ids),
                       !.cur = [id |-> Head(ids), name |-> name, args |-> "parsed"]], h>>

(* part_001:48-49: the singleton after client.connect settled with `out`;  *)
(* NeverAssigned is getMcpClient without the assignment of line 49.        *)
NeverAssigned(client, out) == client
getMcpClient(client, out) == client \/ out = "ok"

(* getMcpClient (part_001:41-52): client.connect settles.  The caller is    *)
(* getGroqTools (63), or the handler before its tool loop (147), which has  *)
(* the tool calls pending.                                                  *)
McpConnect(r) ==
    /\ variant = "mcp"
    /\ req[r].pc = "connect"
    /\ \E out \in Outcomes("ok"), name \in NameChoices(req[r]), k \in Malformed(req[r].pending, 0) :
        /\ mcpClient' = getMcpClient(mcpClient, out)
        /\ IF req[r].pending = <<>>
           THEN /\ Commit(r, IF out = "ok" THEN [req[r] EXCEPT !.pc = "listTools"]
                             ELSE McpFirstCall(req[r], {}, "failed"),
                          heap, conversations)
                /\ faults' = faults + Cost(out)
           ELSE IF out = "ok"
           THEN LET res == McpLoop(req[r], heap, req[r].pending, k, name)
                IN  /\ Commit(r, res[1], res[2], conversations)
                    /\ faults' = faults + k
           ELSE /\ Commit(r, Fail500(req[r], "connect"), heap, conversations)
                /\ faults' = faults + 1
    /\ UNCHANGED <<variant, openaiPrevResponseId,
                   cachedGroqTools, boot, nreq>>

(* part_001:64-80: client.listTools settles *)
McpListTools(r) ==
    /\ variant = "mcp"
    /\ req[r].pc = "listTools"
    /\ \E out \in ListOutcomes :
        IF out = THROW
        THEN /\ Commit(r, McpFirstCall(req[r], {}, "failed"), heap, conversations)
             /\ faults' = faults + 1
             /\ UNCHANGED cachedGroqTools
        ELSE /\ cachedGroqTools' = out
             /\ Commit(r, McpFirstCall(req[r], out, "ok"), heap, conversations)
             /\ UNCHANGED faults
    /\ UNCHANGED <<variant, openaiPrevResponseId, mcpClient, boot, nreq>>

(* part_001:128-147 and 203-210: the first completion settles *)
McpModel1(r) ==
    /\ variant = "mcp"
    /\ req[r].pc = "model1"
    /\ \E reply \in Replies(req[r]), name \in NameChoices(req[r]) :
        LET rec == req[r]
            h1  == Push(heap, rec.messages, AsstMsg(reply.content, reply.ids))
        IN  IF reply.kind = "throw"
               THEN /\ Commit(r, Fail500(rec, "model"), heap, conversations)
                    /\ faults' = faults + 1
               ELSE IF reply.ids = <<>>
               THEN /\ Commit(r, Reply200(rec, reply.content), h1,
                              [conversations EXCEPT ![rec.cid] = rec.messages])
                    /\ UNCHANGED faults
               ELSE IF ~mcpClient
               THEN /\ Commit(r, [rec EXCEPT !.pc = "connect", !.pending = reply.ids],
                              h1, conversations)
                    /\ UNCHANGED faults
               ELSE \E k \in Malformed(reply.ids, 0) :
                       LET res == McpLoop(rec, h1, reply.ids, k, name)
                       IN  /\ Commit(r, res[1], res[2], conversations)
                           /\ faults' = faults + k
    /\ UNCHANGED <<variant, openaiPrevResponseId,
                   mcpClient, cachedGroqTools, boot, nreq>>

(* part_001:158-181: client.callTool settles *)
McpCallTool(r) ==
    /\ variant = "mcp"
    /\ req[r].pc = "callTool"
    /\ \E out \in Outcomes("result"), name \in NameChoices(req[r]), mcpResult \in ToolResults :
        \E k \in Malformed(req[r].pending, Cost(out)) :
            LET rec == req[r]
                h1  == Push(heap, rec.messages,
                            ToolMsg(rec.cur.id,
                                    IF out = "result"
                                    THEN extractTextFromMcpResult(mcpResult)
                                    ELSE ExecErrorText))
                res == McpLoop(rec, h1, rec.pending, k, name)
            IN  /\ Commit(r, res[1], res[2], conversations)
                /\ faults' = faults + Cost(out) + k
    /\ UNCHANGED <<variant, openaiPrevResponseId,
                   mcpClient, cachedGroqTools, boot, nreq>>

(* part_001:185-200: the final completion settles *)
McpModel2(r) ==
    /\ variant = "mcp"
    /\ req[r].pc = "model2"
    /\ \E reply \in Replies(req[r]) :
        LET rec == req[r]
            h1  == Push(heap, rec.messages, AsstMsg(reply.content, reply.ids))
        IN  IF reply.kind = "throw"
            THEN /\ Commit(r, Fail500(rec, "model"), heap, conversations)
                 /\ faults' = faults + 1
            ELSE /\ Commit(r, Reply200(rec, reply.content), h1,
                           [conversations EXCEPT ![rec.cid] = rec.messages])
                 /\ UNCHANGED faults
    /\ UNCHANGED <<variant, openaiPrevResponseId,
                   mcpClient, cachedGroqTools, boot, nreq>>

(* part_001:225-232: the preload of the catalog when the server starts.    *)
BootConnect ==
    /\ boot = "connect"
    /\ \E out \in Outcomes("ok") :
        /\ mcpClient' = getMcpClient(mcpClient, out)
        /\ boot' = IF out = "ok" THEN "listTools" ELSE "done"
        /\ faults' = faults + Cost(out)
    /\ UNCHANGED <<variant, openaiPrevResponseId,
                   conversations, heap, cachedGroqTools, nreq, req>>

BootListTools ==
    /\ boot = "listTools"
    /\ \E out \in ListOutcomes :
        /\ cachedGroqTools' = IF out = THROW THEN cachedGroqTools ELSE out
        /\ faults' = faults + (IF out = THROW THEN 1 ELSE 0)
    /\ boot' = "done"
    /\ UNCHANGED <<variant, openaiPrevResponseId,
                   conversations, heap, mcpClient, nreq, req>>

----------------------------------------------------------------------------
(* part_002: Cohere chat completions, JSON-RPC helpers, MAX_STEPS loop     *)

(* part_002:179-188 and part_000:80-91: load or create the history.  The   *)
(* result is the array and the heap after the system message is pushed.    *)
(* LoadHistoryShared is a store that hands every identifier one array.     *)
LoadHistoryShared(cid, systemPrompt, n) ==
    LET sys == IF systemPrompt # NONE THEN systemPrompt ELSE DEFAULT_SYSTEM_PROMPT
    IN  <<1, IF heap[1] = <<>> /\ sys # "" THEN [heap EXCEPT ![1] = <<SysMsg(sys)>>]
             ELSE heap>>

LoadHistory(cid, systemPrompt, n) ==
    LET old == conversations[cid]
        a   == IF old = 0 THEN n ELSE old
        sys == IF systemPrompt # NONE THEN systemPrompt ELSE DEFAULT_SYSTEM_PROMPT
    IN  <<a, IF heap[a] = <<>> /\ sys # "" THEN [heap EXCEPT ![a] = <<SysMsg(sys)>>]
             ELSE heap>>

(* part_002:124-138 *)
toOpenAiTools(mcpTools) == {t \in mcpTools : t \in allowedTools}

(* part_002:206: the condition of `for (let step = 0; step < MAX_STEPS; step++)`; *)
(* LoopOffByOne is the condition with <= in place of <.                           *)
LoopOffByOne(step) == step <= MAX_STEPS
LoopContinues(step) == step < MAX_STEPS

(* part_002:269-273: after the loop *)
CoFinish(rec, h, finalText) ==
    <<Reply200([rec EXCEPT !.finalText = finalText], finalText),
      IF finalText # "" THEN Push(h, rec.messages, AsstMsg(finalText, <<>>)) ELSE h,
      [conversations EXCEPT ![rec.cid] = rec.messages]>>

(* part_002:236-249: one iteration of `for (const tc of toolCalls)` up to   *)
(* await callMcpTool.  A malformed payload is replaced by {}.               *)
(* CoInvokeAgain leaves the call it invokes among the calls to come.       *)
CoInvokeAgain(rec, ids, name, bad) ==
    [rec EXCEPT !.pc = "callTool", !.pending = ids,
                !.cur = [id |-> Head(ids), name |-> name,
                         args |-> IF bad THEN "{}" ELSE "parsed"]]

CoInvokeLast(rec, ids, name, bad) ==
    [rec EXCEPT !.pc = "callTool", !.pending = SubSeq(ids, 1, Len(ids) - 1),
                !.cur = [id |-> ids[Len(ids)], name |-> name,
                         args |-> IF bad THEN "{}" ELSE "parsed"]]

CoInvoke(rec, ids, name, bad) ==
    [rec EXCEPT !.pc = "callTool", !.pending = Tail(ids),
                !.cur = [id |-> Head(ids), name |-> name,
                         args |-> IF bad THEN "{}" ELSE "parsed"]]

BadChoices(used) == {FALSE} \cup (IF faults + used < MaxFaults THEN {TRUE} ELSE {})

(* part_002:171-194 *)
CoStart(r) ==
    /\ variant = "cohere"
    /\ req[r].pc \in Ended
    /\ nreq < MaxRequests
    /\ \E body \in BodyChoices(r) :
        LET conversationId == body.conversationId
            systemPrompt   == body.systemPrompt
            message        == body.message
            n    == nreq + 1
            cid  == IF conversationId = NONE THEN "default" ELSE conversationId
            load == LoadHistory(cid, systemPrompt, n)
            h2   == Push(load[2], load[1], UserMsg(message))
            rec  == [Idle EXCEPT !.run = n, !.cid = cid, !.messages = load[1],
                                 !.pc = "listTools", !.message = message,
                                 !.base = Stored(cid)]
        IN  /\ nreq' = n
            /\ faults' = faults + Invalid(body)
            /\ Commit(r, rec, h2, conversations)
    /\ UNCHANGED <<variant, openaiPrevResponseId,
                   mcpClient, cachedGroqTools, boot>>

(* part_002:194-212: listMcpTools settles; the first completion is issued  *)
CoListTools(r) ==
    /\ variant = "cohere"
    /\ req[r].pc = "listTools"
    /\ \E out \in ListOutcomes :
        IF out = THROW
        THEN /\ Commit(r, Fail500([req[r] EXCEPT !.discovery = "failed"], "discovery"),
                       heap, conversations)
             /\ faults' = faults + 1
        ELSE /\ Commit(r, IssueModel([req[r] EXCEPT !.tools = toOpenAiTools(out),
                                                    !.discovery = "ok",
                                                    !.local = heap[req[r].messages]],
                                     "model", "auto", TRUE),
                       heap, conversations)
             /\ UNCHANGED faults
    /\ UNCHANGED <<variant, openaiPrevResponseId,
                   mcpClient, cachedGroqTools, boot, nreq>>

(* part_002:207-249 and 264-273: a completion of the loop settles *)
CoModel(r) ==
    /\ variant = "cohere"
    /\ req[r].pc = "model"
    /\ \E reply \in Replies(req[r]), name \in NameChoices(req[r]), bad \in BadChoices(0) :
        LET rec == req[r]
            fin == CoFinish([rec EXCEPT !.local = IF reply.content # ""
                                                  THEN Append(@, AsstMsg(reply.content, <<>>))
                                                  ELSE @],
                            heap, reply.content)
        IN  IF reply.kind = "throw"
               THEN /\ Commit(r, Fail500(rec, "model"), heap, conversations)
                    /\ faults' = faults + 1
               ELSE IF reply.ids = <<>>
               THEN /\ Commit(r, fin[1], fin[2], fin[3])
                    /\ UNCHANGED faults
               ELSE /\ Commit(r, CoInvoke([rec EXCEPT !.local =
                                              Append(@, AsstMsg(reply.content, reply.ids))],
                                          reply.ids, name, bad),
                              heap, conversations)
                    /\ faults' = faults + (IF bad THEN 1 ELSE 0)
    /\ UNCHANGED <<variant, openaiPrevResponseId,
                   mcpClient, cachedGroqTools, boot, nreq>>

(* part_002:249-262 and 206: callMcpTool settles *)
CoCallTool(r) ==
    /\ variant = "cohere"
    /\ req[r].pc = "callTool"
    /\ \E out \in Outcomes("result"), name \in NameChoices(req[r]), toolResult \in ToolResults :
        \E bad \in BadChoices(Cost(out)) :
            LET rec  == req[r]
                rec1 == [rec EXCEPT !.local =
                            Append(@, ToolMsg(rec.cur.id, extractMcpText(toolResult)))]
                rec2 == [rec1 EXCEPT !.step = @ + 1, !.pending = <<>>, !.cur = NoCall]
                fin  == CoFinish(rec2, heap, rec2.finalText)
            IN  IF out = "throw"
                THEN /\ Commit(r, Fail500(rec, "tool"), heap, conversations)
                     /\ faults' = faults + 1
                ELSE IF rec.pending # <<>>
                THEN /\ Commit(r, CoInvoke(rec1, rec.pending, name, bad), heap, conversations)
                     /\ faults' = faults + (IF bad THEN 1 ELSE 0)
                ELSE IF LoopContinues(rec2.step)
                THEN /\ Commit(r, IssueModel(rec2, "model", "auto", TRUE), heap, conversations)
                     /\ UNCHANGED faults
                ELSE /\ Commit(r, fin[1], fin[2], fin[3])
                     /\ UNCHANGED faults
    /\ UNCHANGED <<variant, openaiPrevResponseId,
                   mcpClient, cachedGroqTools, boot, nreq>>

CoNext(r) == CoStart(r) \/ CoListTools(r) \/ CoModel(r) \/ CoCallTool(r)

----------------------------------------------------------------------------
(* part_000: Groq Responses API with the hosted MCP tool                   *)

(* part_000:72-111 *)
RsStart(r) ==
    /\ variant = "responses"
    /\ req[r].pc \in Ended
    /\ nreq < MaxRequests
    /\ \E body \in BodyChoices(r) :
        LET conversationId == body.conversationId
            systemPrompt   == body.systemPrompt
            message        == body.message
            n    == nreq + 1
            cid  == IF conversationId = NONE THEN "default" ELSE conversationId
            load == LoadHistory(cid, systemPrompt, n)
            h2   == Push(load[2], load[1], UserMsg(message))
            rec  == [Idle EXCEPT !.run = n, !.cid = cid, !.messages = load[1],
                                 !.tools = allowedTools, !.message = message,
                                 !.base = Stored(cid)]
        IN  /\ nreq' = n
            /\ faults' = faults + Invalid(body)
            /\ Commit(r, IssueModel(rec, "model", "omitted", TRUE), h2, conversations)
    /\ UNCHANGED <<variant, openaiPrevResponseId,
                   mcpClient, cachedGroqTools, boot>>

(* part_000:106-128: groq.responses.create settles *)
RsModel(r) ==
    /\ variant = "responses"
    /\ req[r].pc = "model"
    /\ \E reply \in Replies(req[r]) :
        LET rec == req[r]
            fin == CoFinish(rec, heap, reply.content)
        IN  IF reply.kind = "throw"
            THEN /\ Commit(r, Fail500(rec, "model"), heap, conversations)
                 /\ faults' = faults + 1
            ELSE /\ Commit(r, fin[1], fin[2], fin[3])
                 /\ UNCHANGED faults
    /\ UNCHANGED <<variant, openaiPrevResponseId,
                   mcpClient, cachedGroqTools, boot, nreq>>

RsNext(r) == RsStart(r) \/ RsModel(r)

----------------------------------------------------------------------------
(* src/src/server.ts: OpenAI Responses API with the hosted MCP tool; the   *)
(* service keeps the conversation, the gateway keeps the last response id. *)

(* The id the service gives to the response of a request.                  *)
ResponseId(rec) == rec.run

(* server.ts:99-130: the handler up to await openai.responses.create       *)
OaStart(r) ==
    /\ variant = "openai"
    /\ req[r].pc \in Ended
    /\ nreq < MaxRequests
    /\ \E body \in BodyChoices(r) :
        LET conversationId == body.conversationId
            message        == body.message
            n      == nreq + 1
            cid    == IF conversationId = NONE THEN "default" ELSE conversationId
            prevId == openaiPrevResponseId[cid]
            rec    == [Idle EXCEPT !.run = n, !.cid = cid, !.message = message,
                                   !.tools = allowedTools, !.prevId = prevId]
        IN  /\ nreq' = n
            /\ faults' = faults + Invalid(body)
            /\ Commit(r, IssueModel(rec, "model", "omitted", TRUE), heap, conversations)
    /\ UNCHANGED <<variant, openaiPrevResponseId,
                   mcpClient, cachedGroqTools, boot>>

(* server.ts:116-142: openai.responses.create settles *)
OaModel(r) ==
    /\ variant = "openai"
    /\ req[r].pc = "model"
    /\ \E reply \in Replies(req[r]) :
        LET rec == req[r]
            id  == ResponseId(rec)
        IN  IF reply.kind = "throw"
            THEN /\ Commit(r, Fail500(rec, "model"), heap, conversations)
                 /\ faults' = faults + 1
                 /\ UNCHANGED openaiPrevResponseId
            ELSE /\ Commit(r, [Reply200(rec, reply.content) EXCEPT !.responseId = id],
                           heap, conversations)
                 /\ openaiPrevResponseId' = [openaiPrevResponseId EXCEPT ![rec.cid] = id]
                 /\ UNCHANGED faults
    /\ UNCHANGED <<variant, mcpClient, cachedGroqTools, boot, nreq>>

OaNext(r) == OaStart(r) \/ OaModel(r)

McpNext(r) ==
    \/ McpStart(r) \/ McpConnect(r) \/ McpListTools(r) \/ McpModel1(r)
    \/ McpCallTool(r) \/ McpModel2(r)

Next ==
    \/ \E r \in Serial : McpNext(r) \/ CoNext(r) \/ RsNext(r) \/ OaNext(r)
    \/ BootConnect \/ BootListTools

Spec == Init /\ [][Next]_vars

(* Every external call a run is waiting for settles in the end.            *)
Settle(r) ==
    \/ McpConnect(r) \/ McpListTools(r) \/ McpModel1(r) \/ McpCallTool(r) \/ McpModel2(r)
    \/ CoListTools(r) \/ CoModel(r) \/ CoCallTool(r)
    \/ RsModel(r) \/ OaModel(r)

FairSpec == Spec /\ \A r \in Serial : WF_vars(Settle(r))

(* Requests handled concurrently: an earlier request of the first slot may *)
(* have left a session; then one request is received in each slot, the     *)
(* second while the first awaits a call, and their steps interleave at the *)
(* awaits.  No request follows the two.                                    *)
ConcRequests == Cardinality(Reqs) + 1

Start(r) == McpStart(r) \/ CoStart(r) \/ RsStart(r) \/ OaStart(r)

ConcNext ==
    \/ \E r \in Reqs :
          \/ /\ nreq < ConcRequests
             /\ \/ r \in Serial /\ \A q \in Reqs \ Serial : req[q].pc = "idle"
                \/ req[r].pc = "idle" /\ \E q \in Serial : Running(q)
             /\ Start(r)
          \/ Settle(r)
    \/ BootConnect \/ BootListTools

ConcSpec == Init /\ [][ConcNext]_vars

(* The extractors on their own: a tool invocation has settled with any raw *)
(* result, and the handler extracts the text of its tool message.          *)
ExtractInit ==
    /\ variant \in {"mcp", "cohere"}
    /\ conversations = [c \in Keys |-> 0]
    /\ heap = [i \in ArrayIds |-> <<>>]
    /\ mcpClient = TRUE
    /\ cachedGroqTools = NULL
    /\ boot = "done"
    /\ nreq = 1
    /\ faults = 0
    /\ \E result \in RawResults :
          req = [r \in Reqs |-> IF r = 1 THEN [Idle EXCEPT !.pc = "extract", !.run = 1,
                                                          !.result = result]
                                ELSE Idle]
    /\ openaiPrevResponseId = [c \in Keys |-> 0]

(* part_001:164-168 content: extractTextFromMcpResult(mcpResult) *)
McpExtract(r) ==
    /\ variant = "mcp"
    /\ req[r].pc = "extract"
    /\ req' = [req EXCEPT ![r].pc = "extracted",
                          ![r].toolText = extractTextFromMcpResult(req[r].result)]
    /\ UNCHANGED <<variant, openaiPrevResponseId,
                   conversations, heap, mcpClient, cachedGroqTools, boot, nreq,
                   faults>>

(* part_002:250 const toolText = extractMcpText(toolResult) *)
CoExtract(r) ==
    /\ variant = "cohere"
    /\ req[r].pc = "extract"
    /\ req' = [req EXCEPT ![r].pc = "extracted",
                          ![r].toolText = extractMcpText(req[r].result)]
    /\ UNCHANGED <<variant, openaiPrevResponseId,
                   conversations, heap, mcpClient, cachedGroqTools, boot, nreq,
                   faults>>

ExtractNext == \E r \in Serial : McpExtract(r) \/ CoExtract(r)

ExtractSpec == ExtractInit /\ [][ExtractNext]_vars

----------------------------------------------------------------------------
(* Reading the state                                                       *)

Range(f) == {f[i] : i \in DOMAIN f}

IsPrefix(s, t) == Len(s) <= Len(t) /\ SubSeq(t, 1, Len(s)) = s

(* The stored history of a conversation: what conversations.get returns.   *)
Hist(c) == IF conversations[c] = 0 THEN <<>> ELSE heap[conversations[c]]

(* The message sequence a run hands to the completion service: part_002    *)
(* keeps a copy in `messages` (199), the other builds pass the array.      *)
Messages(r) ==
    IF variant = "cohere" THEN req[r].local
    ELSE IF req[r].messages = 0 THEN <<>> ELSE heap[req[r].messages]

ModelPcs == {"model", "model1", "model2"}

(* The tool messages right after position i of h.                          *)
BlockEnd(h, i) ==
    CHOOSE j \in i..Len(h) :
        /\ \A k \in (i+1)..j : h[k].role = "tool"
        /\ (j = Len(h) \/ h[j+1].role # "tool")
Block(h, i) == [k \in 1..(BlockEnd(h, i) - i) |-> h[i + k].tool_call_id]

HasCalls(m) == m.role = "assistant" /\ m.tool_calls # <<>>

(* Every tool call of every assistant message is answered exactly once in  *)
(* the block that follows the message.                                     *)
Answered(h) ==
    \A i \in 1..Len(h) :
        HasCalls(h[i]) =>
            \A x \in Range(h[i].tool_calls) :
                Cardinality({k \in DOMAIN Block(h, i) : Block(h, i)[k] = x}) = 1

(* Every tool message answers a call of the assistant message that opens   *)
(* its block.                                                              *)
ToolRefsOk(h) ==
    \A k \in 1..Len(h) :
        h[k].role = "tool" =>
            \E i \in 1..(k-1) :
                /\ HasCalls(h[i])
                /\ \A m \in (i+1)..k : h[m].role = "tool"
                /\ h[k].tool_call_id \in Range(h[i].tool_calls)

Paired(h) == Answered(h) /\ ToolRefsOk(h)

----------------------------------------------------------------------------
(* C1  No-crash-on-tool-failure: a failing tool-host invocation never      *)
(* makes a run end in an error response.                                   *)
C1_NoCrashOnToolFailure ==
    \A r \in Reqs : ~(req[r].pc = "error" /\ req[r].err = "tool")

(* C2  Tool-call/response pairing: outside the execution of a tool block,  *)
(* every history pairs each tool call of an assistant message with exactly *)
(* one tool message of the block that follows it, also when the call's     *)
(* execution failed, and every tool message answers such a call.           *)
C2_Pairing ==
    /\ \A r \in Reqs :
          req[r].pc \notin {"idle", "callTool", "connect"} => Paired(Messages(r))
    /\ \A c \in Keys :
          (\A r \in Reqs : Running(r) => req[r].cid # c) => Paired(Hist(c))

(* C3  While a completion-service call is pending, the history it was      *)
(* given holds no unanswered tool call, also in requests that follow a     *)
(* request that ended in an error.                                         *)
C3_NoUnansweredAtModelCall ==
    \A r \in Reqs : req[r].pc \in ModelPcs => Answered(Messages(r))

(* C3 witness: a completion call of a later request whose history holds a  *)
(* tool block left by a request that failed at its final completion.       *)
C3_Witness ==
    \E r \in Reqs :
        /\ req[r].pc \in ModelPcs
        /\ \E i \in 1..(Len(Messages(r)) - 1) :
              Messages(r)[i].role = "tool" /\ Messages(r)[i+1].role = "user"

----------------------------------------------------------------------------
C5_AnswerNonEmpty ==
    \A r \in Reqs :
        (variant = "cohere" /\ req[r].pc = "done" /\ req[r].step = MAX_STEPS)
            => req[r].text # ""

(* The completion calls one run can make: the loop of part_002 (206), the  *)
(* two calls of part_001 (128, 185), the single call of part_000 (106).    *)
CallBudget ==
    IF variant = "cohere" THEN MAX_STEPS ELSE IF variant = "mcp" THEN 2 ELSE 1

(* C6  Every run terminates when each external call settles, and a run     *)
(* never makes more completion calls than its budget, which is at most     *)
(* MAX_STEPS.                                                              *)
C6_Terminates ==
    /\ [](\A r \in Reqs : req[r].calls <= CallBudget /\ CallBudget <= MAX_STEPS)
    /\ \A r \in Reqs : (Running(r) ~> ~Running(r))

(* C6 witness: a part_001 run that answered after its tool loop.           *)
C6_Witness ==
    \E r \in Reqs : variant = "mcp" /\ req[r].pc = "done" /\ req[r].calls = 2

(* C7  Catalog degradation: a run whose tool discovery failed does not end *)
(* in an error response for it; it goes on with an empty tool set and its  *)
(* completion call is made with tool_choice "none".                        *)
C7_DiscoveryDegrades ==
    \A r \in Reqs :
        req[r].discovery = "failed" =>
            /\ req[r].tools = {}
            /\ ~(req[r].pc = "error" /\ req[r].err = "discovery")
            /\ req[r].pc \in ModelPcs => req[r].tool_choice = "none"

(* C8  Every completion call enables tool use (schemas passed, tool_choice *)
(* "auto", given or by default) exactly when the run's catalog is          *)
(* non-empty, and is made with tool_choice "none" when it is empty.        *)
C8_ToolChoiceFollowsCatalog ==
    \A r \in Reqs :
        req[r].pc \in ModelPcs =>
            /\ (req[r].tools # {}) <=>
                   (req[r].toolsPassed /\ req[r].tool_choice \in {"auto", "omitted"})
            /\ (req[r].tools = {}) => (req[r].tool_choice = "none")

(* C9  Append-only ordering: every step leaves the sequence the store      *)
(* returns for an identifier a prefix of the one it returns afterwards.    *)
C9_AppendOnly ==
    [][\A c \in Keys : IsPrefix(Hist(c), Hist(c)')]_vars

(* C9 witness: a stored history that a later request has extended.         *)
C9_Witness ==
    \E c \in Keys :
        Cardinality({i \in DOMAIN Hist(c) : Hist(c)[i].role = "user"}) >= 2

(* The last assistant message of h that carries tool calls.                *)
LastCalls(h) ==
    CHOOSE i \in 1..Len(h) :
        HasCalls(h[i]) /\ \A j \in (i+1)..Len(h) : ~HasCalls(h[j])

(* C10  Tool calls are executed one at a time in emission order: while an  *)
(* invocation is in flight the tool messages appended so far answer the    *)
(* calls emitted before it, in order, it is the next call emitted, and the *)
(* calls after it wait; every block of tool messages follows the order of  *)
(* the calls it answers.                                                   *)
C10_SequentialInOrder ==
    \A r \in Reqs :
        /\ req[r].pc = "callTool" =>
              LET h    == Messages(r)
                  i    == LastCalls(h)
                  ids  == h[i].tool_calls
                  done == Block(h, i)
              IN  /\ i + Len(done) = Len(h)
                  /\ Len(done) < Len(ids)
                  /\ done = SubSeq(ids, 1, Len(done))
                  /\ req[r].cur.id = ids[Len(done) + 1]
                  /\ req[r].pending = SubSeq(ids, Len(done) + 2, Len(ids))
        /\ \A i \in 1..Len(Messages(r)) :
              HasCalls(Messages(r)[i]) =>
                  IsPrefix(Block(Messages(r), i), Messages(r)[i].tool_calls)

(* C10 witness: the second call of a response is in flight after the tool  *)
(* message of the first was appended.                                      *)
C10_Witness ==
    \E r \in Reqs :
        /\ req[r].pc = "callTool"
        /\ req[r].pending = <<>>
        /\ Messages(r)[Len(Messages(r))].role = "tool"

----------------------------------------------------------------------------
(* C11  Argument parse failure: the tool host is never invoked for a call  *)
(* whose argument payload could not be parsed.                             *)
C11_ParseFailureSkipsHost ==
    \A r \in Reqs : req[r].pc = "callTool" => req[r].cur.args = "parsed"

(* C12  A request ends in an error response only when a completion call    *)
(* failed: never for a connection, discovery, parse or invocation failure. *)
C12_OnlyModelFailuresFail ==
    \A r \in Reqs : req[r].status = 500 => req[r].err = "model"

(* The text blocks of a result that carry a string.                        *)
TextBlocks(result) ==
    {i \in DOMAIN result.content :
        result.content[i].type = "text" /\ result.content[i].text # UNDEF}

WellFormed(result) ==
    \A i \in DOMAIN result.content :
        result.content[i].type = "text" => result.content[i].text # UNDEF

(* C13  Extractor priority: for a result with a structured payload and a   *)
(* text block, the extracted text is the serialised payload.               *)
C13_StructuredFirst ==
    \A r \in Reqs :
        (/\ req[r].pc = "extracted"
         /\ req[r].result.structuredContent = "S"
         /\ TextBlocks(req[r].result) # {})
            => req[r].toolText = Stringify("S")

(* C14  For a result without a structured payload the extracted text is    *)
(* the text of the first text block alone, and the serialised result when  *)
(* there is no text block.                                                 *)
C14_FirstTextOrWhole ==
    \A r \in Reqs :
        (/\ req[r].pc = "extracted"
         /\ req[r].result.structuredContent = UNDEF
         /\ WellFormed(req[r].result))
            => LET result == req[r].result
                   found  == TextBlocks(result)
               IN  req[r].toolText =
                       IF found = {} THEN Stringify("result")
                       ELSE result.content[CHOOSE i \in found : \A j \in found : i <= j].text

(* C15  Session creation: every stored session holds exactly one system    *)
(* message, and it is the first message.                                   *)
C15_OneSystemMessageFirst ==
    \A c \in Keys :
        Hist(c) # <<>> =>
            /\ Hist(c)[1].role = "system"
            /\ \A i \in 2..Len(Hist(c)) : Hist(c)[i].role # "system"

(* The last message of the history stored for the conversation of run r.   *)
LastStored(r) == Hist(req[r].cid)[Len(Hist(req[r].cid))]

(* C16  A run whose first response carries no tool calls ends after that   *)
(* one completion call with the response's text as the answer, and the     *)
(* assistant message with that text is appended to the history, also when  *)
(* the text is empty.                                                      *)
C16_ToolFreeReply ==
    \A r \in Serial :
        (variant # "openai" /\ req[r].pc = "done" /\ req[r].calls = 1) =>
            /\ Hist(req[r].cid) # <<>>
            /\ LastStored(r).role = "assistant"
            /\ LastStored(r).tool_calls = <<>>
            /\ LastStored(r).content = req[r].text

(* C17  When a request completes with an answer that is not the one of an  *)
(* exhausted step budget, the answer is the content of the last assistant  *)
(* message, which is the last element of the stored history.               *)
C17_AnswerIsLastStored ==
    \A r \in Serial :
        (variant # "openai" /\ req[r].pc = "done" /\ req[r].step < MAX_STEPS) =>
            /\ Len(Hist(req[r].cid)) > 0
            /\ \E i \in DOMAIN Hist(req[r].cid) :
                  /\ i = Len(Hist(req[r].cid))
                  /\ Hist(req[r].cid)[i].role = "assistant"
                  /\ Hist(req[r].cid)[i].content = req[r].text

(* C18  Single-initialisation guard: at most one connection attempt of the *)
(* requests is in flight at a time.                                        *)
C18_OneConnectInFlight ==
    Cardinality({r \in Reqs : variant = "mcp" /\ req[r].pc = "connect"}) <= 1

(* C19  The catalog is discovered once and immutable once cached: a cached *)
(* catalog never changes, and a slot whose last run had a discovered or    *)
(* cached catalog issues no further list-tools call.                       *)
C19_CatalogImmutable ==
    [][/\ cachedGroqTools # NULL => cachedGroqTools' = cachedGroqTools
       /\ \A r \in Reqs :
             req[r].discovery \in {"ok", "cached"} => req[r]'.pc # "listTools"]_vars

(* C20  Requests for different identifiers are independent: a step changes *)
(* the stored history of an identifier only when it is a step of a request *)
(* for that identifier.                                                    *)
C20_Independent ==
    [][\A c \in Keys :
          Hist(c)' # Hist(c) => \E r \in Reqs : req[r]' # req[r] /\ req[r]'.cid = c]_vars

(* C20 witness: a request for "b" has stored its history while a request   *)
(* for "a", whose session exists, is still running.                        *)
C20_Witness ==
    \E r, q \in Reqs :
        /\ Running(r) /\ req[r].cid = "a" /\ Hist("a") # <<>>
        /\ req[q].pc = "done" /\ req[q].cid = "b" /\ Hist("b") # <<>>

----------------------------------------------------------------------------
(* The request of the second slot is for the identifier the first slot     *)
(* works on: two requests for one identifier overlap.                      *)
SameIdOverlap ==
    \E q \in Reqs \ Serial, r \in Serial :
        req[q].pc # "idle" /\ req[r].pc # "idle" /\ req[q].cid = req[r].cid

(* C21  With requests serialised per identifier the ordering invariants    *)
(* hold under every interleaving: each pending completion call was given a *)
(* history whose tool calls are all answered and whose tool messages       *)
(* follow the assistant message that emitted their calls, and so is every  *)
(* stored history no request is working on.  (Without serialisation they   *)
(* can be violated: C21_Witness.)                                          *)
C21_SerializedKeepsOrder ==
    ~SameIdOverlap =>
        /\ \A r \in Reqs : req[r].pc \in ModelPcs => Paired(Messages(r))
        /\ \A c \in Keys :
              (\A r \in Reqs : Running(r) => req[r].cid # c) => Paired(Hist(c))

(* C21 witness: two overlapping requests for one identifier, and a pending *)
(* completion call whose history holds an unanswered tool call.            *)
C21_Witness ==
    /\ SameIdOverlap
    /\ \E r \in Reqs : req[r].pc \in ModelPcs /\ ~Answered(Messages(r))

(* The tool calls answered in h.                                           *)
AnsweredIds(h) == {h[i].tool_call_id : i \in {j \in DOMAIN h : h[j].role = "tool"}}

(* C22  No automatic retries: a tool invocation that settled, with a       *)
(* result or a failure, is not issued again and its call is not among the  *)
(* calls to come; the call in flight was not answered before; and a run    *)
(* issues a further completion call only after the reply to the last one   *)
(* was appended, never after a failed one.                                 *)
C22_NoRetries ==
    [][\A r \in Reqs :
          /\ (req[r].pc = "callTool" /\ req[r]' # req[r]) =>
                /\ ~(req[r]'.pc = "callTool" /\ req[r]'.cur.id = req[r].cur.id)
                /\ req[r].cur.id \notin Range(req[r]'.pending)
          /\ req[r]'.pc = "callTool" => req[r]'.cur.id \notin AnsweredIds(Messages(r)')
          /\ (/\ req[r].pc \in ModelPcs
              /\ req[r]'.run = req[r].run
              /\ req[r]'.calls > req[r].calls) =>
                Len(Messages(r)') > Len(Messages(r))]_vars

(* C22 witness: a failed tool invocation was absorbed and the run went on  *)
(* to its final completion call.                                           *)
C22_Witness ==
    \E r \in Reqs :
        /\ req[r].pc = "model2"
        /\ Messages(r)[Len(Messages(r))].role = "tool"
        /\ Messages(r)[Len(Messages(r))].content = ExecErrorText


(* C23: a request without conversationId is served under the defaulted     *)
(* identifier, and a request without message is answered with an error     *)
(* and no completion is ever requested for it.                             *)
C23_Validated ==
    \A r \in Reqs :
        req[r].pc # "idle" =>
            /\ req[r].cid \in Keys
            /\ req[r].message = UNDEF =>
                  /\ req[r].pc \notin ModelPcs
                  /\ req[r].calls = 0
                  /\ req[r].pc \in Ended => req[r].pc = "error"


(* C24: a request that ended in an error response has left the stored      *)
(* history of its conversation as long as it was when the request began.  *)
C24_ErrorLeavesHistory ==
    \A r \in Serial :
        (req[r].pc = "error" /\ req[r].cid \in Keys) =>
            Len(Hist(req[r].cid)) = req[r].base


(* C25: where the build has an allow-list, the tools offered with a        *)
(* completion call are all in allowedTools, and the tool a request invokes *)
(* on the tool host is in allowedTools.                                    *)
C25_AllowListEnforced ==
    \A r \in Reqs :
        variant # "mcp" =>
            /\ req[r].pc \in ModelPcs => req[r].tools \subseteq allowedTools
            /\ req[r].pc = "callTool" => req[r].cur.name \in allowedTools


(* C26: whenever the tool cache is populated the tool-host connection is   *)
(* established: cachedGroqTools is non-null only if mcpClient is non-null, *)
(* so /health never shows loaded tools without a connection.               *)
C26_CacheImpliesClient == cachedGroqTools # NULL => mcpClient

C26_Witness == cachedGroqTools # NULL /\ cachedGroqTools # {} /\ mcpClient


(* C27: two requests for one conversation whose calls to the Responses API *)
(* are in flight together do not carry the id of the same earlier response *)
(* as previous_response_id.                                                *)
C27_DistinctPrevious ==
    \A q, r \in Reqs :
        (/\ q # r /\ variant = "openai"
         /\ req[q].pc = "model" /\ req[r].pc = "model"
         /\ req[q].cid = req[r].cid /\ req[q].prevId # 0) =>
            req[q].prevId # req[r].prevId


(* C28: in every stored history user and assistant turns alternate: no     *)
(* user message is directly followed by another user message.              *)
C28_TurnsAlternate ==
    \A c \in Keys :
        \A i \in 1..(Len(Hist(c)) - 1) :
            ~(Hist(c)[i].role = "user" /\ Hist(c)[i + 1].role = "user")

============================================================================
